---------------------------- MODULE Spec2Model ----------------------------
(***************************************************************************)
(* Sparkify data-lake ETL (etl.py): main() runs process_song_data and then *)
(* process_log_data on one Spark session.  DataFrames are modelled by the  *)
(* set of their rows (every table the job writes goes through distinct()), *)
(* an output directory by the bag of rows stored under it.                 *)
(*                                                                         *)
(* Spec    : main() as written, statement by statement, with engine        *)
(*           failures and reruns of the job.  The call of l.143 raises     *)
(*           TypeError, so no statement after it is ever executed.         *)
(* SpecFn  : the relational operators and column expressions of lines      *)
(*           70-176 applied in program order to bounded inputs, l.143      *)
(*           taken as the column expression it contains,                   *)
(*           (df['ts']/1000).cast('timestamp').  The session time zone is  *)
(*           UTC; partitionBy does not change the rows stored.             *)
(***************************************************************************)
EXTENDS Integers, FiniteSets, Sequences, Bags, TLC

VARIABLES
    song_data,        \* records under input_data + "song_data/*/*/*/*.json"
    log_data,         \* records under input_data + "log_data/*/*/*.json"
    out,              \* output_data: directory name -> bag of stored rows
    views,            \* temp views of the Spark session: name -> registered?, rows
    pc,               \* statement main() is about to execute
    run,              \* number of invocations of main() so far
    song_df,          \* l.161
    songs_table,      \* l.73
    artists_table,    \* l.83
    df,               \* df of process_song_data (l.70), of process_log_data (l.114-150)
    users_table,      \* l.124
    time_table,       \* l.151
    songplays_table,  \* l.165
    writes,           \* history: directory -> writes issued by the current run
    viewOps,          \* history: registrations and reads of songs_table_view, this run
    lineage,          \* history: songplay_id -> the <<event, song>> pair of its row
    failedAt,         \* history: statement whose exception ended the current run
    prev              \* history: out as the previous run left it; did it run to l.143

vars == <<song_data, log_data, out, views, pc, run, song_df, songs_table,
          artists_table, df, users_table, time_table, songplays_table,
          writes, viewOps, lineage, failedAt, prev>>

(***************************************************************************)
(* Bounds of the model.                                                    *)
(***************************************************************************)
MaxSongs  == 2    \* song records in the input
MaxEvents == 2    \* log events in the input
MaxRuns   == 2    \* invocations of main()

NULL == "null"
Unregistered == [registered |-> FALSE, rows |-> {}]
Registered(rows) == [registered |-> TRUE, rows |-> rows]
Dirs == {"songs", "artists", "users", "time", "songplays"}

(***************************************************************************)
(* Input records.  ts is epoch milliseconds, kept as two decimal limbs     *)
(* <<hi, lo>> = hi * 10^6 + lo.                                            *)
(***************************************************************************)
Limb == 1000 * 1000

TsPool == { <<1541105, 830796>>,     \* 1541105830796
            <<1546300, 799999>> }    \* 1546300799999

SongRecords ==
    [ song_id : {"S1"}, title : {"X"}, artist_id : {"A1", "A2"},
      year : {2000}, duration : {"10.5"}, artist_name : {"Y", "W"},
      artist_location : {"L1"}, artist_latitude : {NULL},
      artist_longitude : {NULL} ]

LogRecords ==
    [ page : {"NextSong", "Home"}, song : {"X"}, artist : {"Y"},
      length : {"10.5", "20.0"}, ts : TsPool, userId : {"10"},
      firstName : {"F"}, lastName : {"G"}, gender : {"M"}, level : {"free"},
      sessionId : {1}, location : {"LA"}, userAgent : {"UA"} ]

RECURSIVE UpTo(_, _)
UpTo(S, n) ==
    IF n = 0 THEN { {} }
    ELSE LET P == UpTo(S, n - 1) IN P \cup { T \cup {x} : T \in P, x \in S }

(***************************************************************************)
(* DataFrame operators.                                                    *)
(***************************************************************************)
\* df.select(cols).distinct()
SelectDistinct(rows, cols) == { [c \in cols |-> r[c]] : r \in rows }

\* a == b on columns: SQL equality, never true when a side is null
SqlEq(a, b) == a # NULL /\ b # NULL /\ a = b

\* no filter: every event is kept
KeepAllPages(rows) == rows

\* df.filter(df.page == 'NextSong')
FilterPage(rows) == { r \in rows : SqlEq(r.page, "NextSong") }

\* DataFrameWriter.mode('append'): the rows are added to what is stored
WriteAppend(dir, rows) == [out EXCEPT ![dir] = @ (+) SetToBag(rows)]

\* DataFrameWriter.mode('overwrite'): the directory holds the new rows only
WriteOverwrite(dir, rows) == [out EXCEPT ![dir] = SetToBag(rows)]

SongColumns == {"song_id", "title", "artist_id", "year", "duration"}
ViewColumns == SongColumns \cup {"artist_name"}
ArtistColumns == {"artist_id", "artist_name", "artist_location",
                  "artist_latitude", "artist_longitude"}

NoLocals ==
    /\ df = {} /\ song_df = {} /\ songs_table = {} /\ artists_table = {}
    /\ users_table = {} /\ time_table = {} /\ songplays_table = {}

NoWrites == [d \in Dirs |-> 0]
NoViewOps == [reg |-> 0, read |-> 0]
EmptyDirs == [d \in Dirs |-> EmptyBag]

Init ==
    /\ song_data \in UpTo(SongRecords, MaxSongs)
    /\ log_data \in UpTo(LogRecords, MaxEvents)
    /\ out = EmptyDirs
    /\ views = [v \in {"songs_table_view", "log_view"} |-> Unregistered]
    /\ pc = "main"
    /\ run = 1
    /\ NoLocals
    /\ writes = NoWrites
    /\ viewOps = NoViewOps
    /\ lineage = << >>
    /\ failedAt = "none"
    /\ prev = [full |-> FALSE, out |-> EmptyDirs]

(***************************************************************************)
(* main(), l.196-200: the session is created and process_song_data called. *)
(***************************************************************************)
Main ==
    /\ pc = "main"
    /\ pc' = "L70"
    /\ UNCHANGED <<song_data, log_data, out, views, run, song_df, songs_table,
                   artists_table, df, users_table, time_table,
                   songplays_table, writes, viewOps, lineage, failedAt, prev>>

(***************************************************************************)
(* process_song_data                                                       *)
(***************************************************************************)
\* l.70  df = spark.read.json(song_data)
ReadSongData ==
    /\ pc = "L70"
    /\ df' = song_data
    /\ pc' = "L73"
    /\ UNCHANGED <<song_data, log_data, out, views, run, song_df, songs_table,
                   artists_table, users_table, time_table, songplays_table,
                   writes, viewOps, lineage, failedAt, prev>>

\* l.73  songs_table = df.select(...).distinct()
SelectSongs ==
    /\ pc = "L73"
    /\ songs_table' = SelectDistinct(df, SongColumns)
    /\ pc' = "L76"
    /\ UNCHANGED <<song_data, log_data, out, views, run, song_df, df,
                   artists_table, users_table, time_table, songplays_table,
                   writes, viewOps, lineage, failedAt, prev>>

\* l.76  df.select(...).distinct().createOrReplaceTempView('songs_table_view')
RegisterSongsView ==
    /\ pc = "L76"
    /\ views' = [views EXCEPT !["songs_table_view"] =
                                 Registered(SelectDistinct(df, ViewColumns))]
    /\ viewOps' = [viewOps EXCEPT !.reg = @ + 1]
    /\ pc' = "L79"
    /\ UNCHANGED <<song_data, log_data, out, run, song_df, songs_table, df,
                   artists_table, users_table, time_table, songplays_table,
                   writes, lineage, failedAt, prev>>

\* l.79  songs_table.write.mode('overwrite')...parquet(output_data + 'songs')
WriteSongs ==
    /\ pc = "L79"
    /\ out' = WriteOverwrite("songs", songs_table)
    /\ writes' = [writes EXCEPT !["songs"] = @ + 1]
    /\ pc' = "L83"
    /\ UNCHANGED <<song_data, log_data, views, run, song_df, songs_table, df,
                   artists_table, users_table, time_table, songplays_table,
                   viewOps, lineage, failedAt, prev>>

\* l.83  artists_table = df.select(...).distinct()
SelectArtists ==
    /\ pc = "L83"
    /\ artists_table' = SelectDistinct(df, ArtistColumns)
    /\ pc' = "L87"
    /\ UNCHANGED <<song_data, log_data, out, views, run, song_df, songs_table,
                   df, users_table, time_table, songplays_table, writes,
                   viewOps, lineage, failedAt, prev>>

\* l.87  artists_table.write.mode('overwrite').parquet(output_data + 'artists');
\* process_song_data returns and main() calls process_log_data (l.201)
WriteArtists ==
    /\ pc = "L87"
    /\ out' = WriteOverwrite("artists", artists_table)
    /\ writes' = [writes EXCEPT !["artists"] = @ + 1]
    /\ df' = {} /\ songs_table' = {} /\ artists_table' = {}
    /\ pc' = "L114"
    /\ UNCHANGED <<song_data, log_data, views, run, song_df, users_table,
                   time_table, songplays_table, viewOps, lineage, failedAt, prev>>

(***************************************************************************)
(* Column expressions of process_log_data.                                 *)
(***************************************************************************)
\* df.withColumn(name, F): name is added, or replaced when already there
\* (one row of it, with the value the column expression has on that row)
WithColumn(r, name, value) ==
    [c \in (DOMAIN r) \cup {name} |-> IF c = name THEN value ELSE r[c]]

\* ts / 1000 read as local time on a host one hour east of UTC
EpochSecondsLocal(ts) ==
    [sec |-> ts[1] * (Limb \div 1000) + ts[2] \div 1000 + 3600, ms |-> ts[2] % 1000]

\* l.134-143  ts / 1000 as a timestamp: seconds since the epoch and the
\* milliseconds left over
EpochSeconds(ts) ==
    [sec |-> ts[1] * (Limb \div 1000) + ts[2] \div 1000, ms |-> ts[2] % 1000]

\* calendar date of a day number counted from 1970-01-01 (proleptic Gregorian)
CivilFromDays(days) ==
    LET z   == days + 719468
        era == z \div 146097
        doe == z - era * 146097
        yoe == (doe - doe \div 1460 + doe \div 36524 - doe \div 146096) \div 365
        doy == doe - (365 * yoe + yoe \div 4 - yoe \div 100)
        mp  == (5 * doy + 2) \div 153
        d   == doy - (153 * mp + 2) \div 5 + 1
        m   == IF mp < 10 THEN mp + 3 ELSE mp - 9
        y   == yoe + era * 400 + (IF m <= 2 THEN 1 ELSE 0)
    IN  [year |-> y, month |-> m, day |-> d]

DaysOf(t) == t.sec \div 86400

\* year(), month(), dayofmonth(), hour() of a timestamp, session time zone UTC
Year(t) == CivilFromDays(DaysOf(t)).year
Month(t) == CivilFromDays(DaysOf(t)).month
DayOfMonth(t) == CivilFromDays(DaysOf(t)).day
Hour(t) == (t.sec % 86400) \div 3600
Minute(t) == (t.sec % 3600) \div 60
Second(t) == t.sec % 60

\* date_format(t, 'E'): 1970-01-01 was a Thursday
WeekDay(t) ==
    <<"Mon", "Tue", "Wed", "Thu", "Fri", "Sat", "Sun">>[((DaysOf(t) + 3) % 7) + 1]

IsLeap(y) == (y % 4 = 0 /\ y % 100 # 0) \/ y % 400 = 0

\* day number of y-01-01
DaysToYear(y) ==
    LET p == y - 1
    IN  365 * (y - 1970) + (p \div 4 - 1969 \div 4) - (p \div 100 - 1969 \div 100)
        + (p \div 400 - 1969 \div 400)

\* number of ISO weeks of year y
IsoWeeks(y) ==
    LET P(n) == (n + n \div 4 - n \div 100 + n \div 400) % 7
    IN  IF P(y) = 4 \/ P(y - 1) = 3 THEN 53 ELSE 52

\* weekofyear(): ISO 8601 week number
WeekOfYear(t) ==
    LET y   == Year(t)
        ord == DaysOf(t) - DaysToYear(y) + 1
        wd  == ((DaysOf(t) + 3) % 7) + 1
        w   == (ord - wd + 10) \div 7
    IN  IF w < 1 THEN IsoWeeks(y - 1)
        ELSE IF w > IsoWeeks(y) THEN 1
        ELSE w

UserColumns == {"userId", "firstName", "lastName", "gender", "level"}
TimeColumns == {"start_time", "hour", "day", "week", "weekday", "year", "month"}

\* l.124-128  select with aliases, distinct
UsersOf(rows) ==
    { [user_id |-> r.userId, first_name |-> r.firstName, last_name |-> r.lastName,
       gender |-> r.gender, level |-> r.level] : r \in rows }

\* l.165-167  the join condition
JoinCondNoDuration(e, s) ==
    /\ SqlEq(e.song, s.title)
    /\ SqlEq(e.artist, s.artist_name)

JoinCond(e, s) ==
    /\ SqlEq(e.song, s.title)
    /\ SqlEq(e.artist, s.artist_name)
    /\ SqlEq(e.length, s.duration)

NullSong == [c \in ViewColumns |-> NULL]

\* a "left" join keeps the events without a match, padded with nulls
LeftJoin(events, songs) ==
    { <<e, s>> \in events \X songs : JoinCond(e, s) }
    \cup { <<e, NullSong>> : e \in { x \in events : \A s \in songs : ~JoinCond(x, s) } }

\* l.165-168  df.join(song_df, cond, "inner").distinct()
InnerJoin(events, songs) == { <<e, s>> \in events \X songs : JoinCond(e, s) }

\* l.169-172  the selected columns of a joined row and its songplay_id
SongplayRow(e, s, id) ==
    [ start_time |-> e.start_time, userId |-> e.userId, level |-> e.level,
      song_id |-> s.song_id, artist_id |-> s.artist_id, sessionId |-> e.sessionId,
      location |-> e.location, userAgent |-> e.userAgent,
      year |-> e.year, month |-> e.month, songplay_id |-> id ]

\* monotonically_increasing_id(): distinct ids, in an order the engine chooses
IdAssignments(pairs) ==
    LET n == Cardinality(pairs)
    IN  { f \in [0 .. n - 1 -> pairs] : \A i, j \in 0 .. n - 1 : f[i] = f[j] => i = j }

(***************************************************************************)
(* process_log_data                                                        *)
(***************************************************************************)
\* l.114  df = spark.read.json(log_data)
ReadLogData ==
    /\ pc = "L114"
    /\ df' = log_data
    /\ pc' = "L117"
    /\ UNCHANGED <<song_data, log_data, out, views, run, song_df, songs_table,
                   artists_table, users_table, time_table, songplays_table,
                   writes, viewOps, lineage, failedAt, prev>>

\* l.117  df = df.filter(df.page == 'NextSong')
FilterNextSong ==
    /\ pc = "L117"
    /\ df' = FilterPage(df)
    /\ pc' = "L121"
    /\ UNCHANGED <<song_data, log_data, out, views, run, song_df, songs_table,
                   artists_table, users_table, time_table, songplays_table,
                   writes, viewOps, lineage, failedAt, prev>>

\* l.121-128  artists_table (unused) and users_table
SelectUsers ==
    /\ pc = "L121"
    /\ artists_table' = SelectDistinct(df, UserColumns)
    /\ users_table' = UsersOf(df)
    /\ pc' = "L131"
    /\ UNCHANGED <<song_data, log_data, out, views, run, song_df, songs_table,
                   df, time_table, songplays_table, writes, viewOps, lineage,
                   failedAt, prev>>

\* l.131  users_table.write.mode('overwrite').parquet(output_data + 'users')
WriteUsers ==
    /\ pc = "L131"
    /\ out' = WriteOverwrite("users", users_table)
    /\ writes' = [writes EXCEPT !["users"] = @ + 1]
    /\ pc' = "L134"
    /\ UNCHANGED <<song_data, log_data, views, run, song_df, songs_table, df,
                   artists_table, users_table, time_table, songplays_table,
                   viewOps, lineage, failedAt, prev>>

\* l.134-139  the udf columns "timestamp" and "start_time"
AddUdfColumns ==
    /\ pc = "L134"
    /\ LET Ts(r) == WithColumn(r, "timestamp", EpochSeconds(r.ts))
           St(r) == WithColumn(r, "start_time", r.timestamp)
       IN  df' = { St(Ts(r)) : r \in df }
    /\ pc' = "L143"
    /\ UNCHANGED <<song_data, log_data, out, views, run, song_df, songs_table,
                   artists_table, users_table, time_table, songplays_table,
                   writes, viewOps, lineage, failedAt, prev>>

(***************************************************************************)
(* Exceptions.  Nothing in etl.py catches one: an exception raised by a    *)
(* statement leaves process_*_data and main(), and the process ends.       *)
(***************************************************************************)
\* the statement is tried again instead of the exception leaving main()
RetryStep(l) ==
    /\ pc' = pc
    /\ failedAt' = l

Raise(l) ==
    /\ pc' = "failed"
    /\ failedAt' = l

\* l.143 with the call made: the statement completes and l.144 is next
StartTimeCallReturns ==
    /\ pc = "L143"
    /\ pc' = "L144"
    /\ UNCHANGED <<song_data, log_data, out, views, run, song_df, songs_table,
                   artists_table, df, users_table, time_table, songplays_table,
                   writes, viewOps, lineage, failedAt, prev>>

\* l.143  'start_time'(df['ts']/1000): the callee is a str, so the call raises
\* TypeError, which nothing catches: process_log_data and main() end there
CallStartTime ==
    /\ pc = "L143"
    /\ Raise("TypeError")
    /\ UNCHANGED <<song_data, log_data, out, views, run, song_df, songs_table,
                   artists_table, df, users_table, time_table, songplays_table,
                   writes, viewOps, lineage, prev>>

\* l.143  the column expression (df['ts']/1000).cast('timestamp') as start_time
DeriveStartTime ==
    /\ pc = "L143"
    /\ df' = { WithColumn(r, "start_time", EpochSeconds(r.ts)) : r \in df }
    /\ pc' = "L144"
    /\ UNCHANGED <<song_data, log_data, out, views, run, song_df, songs_table,
                   artists_table, users_table, time_table, songplays_table,
                   writes, viewOps, lineage, failedAt, prev>>

\* l.144-150  calendar columns, then createOrReplaceTempView('log_view')
AddCalendarColumns ==
    /\ pc = "L144"
    /\ LET Y(r) == WithColumn(r, "year", Year(r.start_time))
           M(r) == WithColumn(r, "month", Month(r.start_time))
           W(r) == WithColumn(r, "week", WeekOfYear(r.start_time))
           E(r) == WithColumn(r, "weekday", WeekDay(r.start_time))
           D(r) == WithColumn(r, "day", DayOfMonth(r.start_time))
           H(r) == WithColumn(r, "hour", Hour(r.start_time))
       IN  df' = { H(D(E(W(M(Y(r)))))) : r \in df }
    /\ views' = [views EXCEPT !["log_view"] = Registered(df')]
    /\ pc' = "L151"
    /\ UNCHANGED <<song_data, log_data, out, run, song_df, songs_table,
                   artists_table, users_table, time_table, songplays_table,
                   writes, viewOps, lineage, failedAt, prev>>

\* l.151  time_table = df.select(...).distinct()
SelectTime ==
    /\ pc = "L151"
    /\ time_table' = SelectDistinct(df, TimeColumns)
    /\ pc' = "L157"
    /\ UNCHANGED <<song_data, log_data, out, views, run, song_df, songs_table,
                   artists_table, df, users_table, songplays_table, writes,
                   viewOps, lineage, failedAt, prev>>

\* l.157  time_table.write.mode('overwrite')...parquet(output_data + 'time')
WriteTime ==
    /\ pc = "L157"
    /\ out' = WriteOverwrite("time", time_table)
    /\ writes' = [writes EXCEPT !["time"] = @ + 1]
    /\ pc' = "L161"
    /\ UNCHANGED <<song_data, log_data, views, run, song_df, songs_table, df,
                   artists_table, users_table, time_table, songplays_table,
                   viewOps, lineage, failedAt, prev>>

\* l.161  song_df = spark.sql("SELECT * FROM songs_table_view")
ReadSongsView ==
    /\ pc = "L161"
    /\ views["songs_table_view"].registered
    /\ song_df' = views["songs_table_view"].rows
    /\ viewOps' = [viewOps EXCEPT !.read = @ + 1]
    /\ pc' = "L165"
    /\ UNCHANGED <<song_data, log_data, out, views, run, songs_table, df,
                   artists_table, users_table, time_table, songplays_table,
                   writes, lineage, failedAt, prev>>

\* l.165-172  songplays_table = df.join(...).distinct().select(...).withColumn(id)
JoinSongplays ==
    /\ pc = "L165"
    /\ \E f \in IdAssignments(InnerJoin(df, song_df)) :
          /\ lineage' = f
          /\ songplays_table' =
                { SongplayRow(f[i][1], f[i][2], i) : i \in DOMAIN f }
    /\ pc' = "L176"
    /\ UNCHANGED <<song_data, log_data, out, views, run, song_df, songs_table,
                   artists_table, df, users_table, time_table, writes, viewOps,
                   failedAt, prev>>

\* l.176  songplays_table.write.mode('overwrite')...; both functions return
WriteSongplays ==
    /\ pc = "L176"
    /\ out' = WriteOverwrite("songplays", songplays_table)
    /\ writes' = [writes EXCEPT !["songplays"] = @ + 1]
    /\ df' = {} /\ song_df' = {} /\ artists_table' = {} /\ users_table' = {}
    /\ time_table' = {} /\ songplays_table' = {}
    /\ pc' = "done"
    /\ UNCHANGED <<song_data, log_data, views, run, songs_table, viewOps,
                   lineage, failedAt, prev>>

(***************************************************************************)
(* Failures and reruns.                                                    *)
(***************************************************************************)
\* statements of main() up to l.143, each of which calls into the engine
EngineSteps == {"main", "L70", "L73", "L76", "L79", "L83", "L87", "L114",
                "L117", "L121", "L131", "L134", "L143"}

\* the engine raises in the statement about to run (unreadable input, missing
\* column, storage failure)
EngineFailure ==
    /\ pc \in EngineSteps
    /\ Raise(pc)
    /\ UNCHANGED <<song_data, log_data, out, views, run, song_df, songs_table,
                   artists_table, df, users_table, time_table, songplays_table,
                   writes, viewOps, lineage, prev>>

\* l.203-204  the script is started again: a new process and a new session
StartRun ==
    /\ pc \in {"failed", "done"}
    /\ run < MaxRuns
    /\ run' = run + 1
    /\ pc' = "main"
    /\ views' = [v \in DOMAIN views |-> Unregistered]
    /\ df' = {} /\ song_df' = {} /\ songs_table' = {} /\ artists_table' = {}
    /\ users_table' = {} /\ time_table' = {} /\ songplays_table' = {}
    /\ writes' = NoWrites
    /\ viewOps' = NoViewOps
    /\ lineage' = << >>
    /\ failedAt' = "none"
    /\ prev' = [full |-> failedAt = "TypeError" \/ pc = "done", out |-> out]
    /\ UNCHANGED <<song_data, log_data, out>>

Next ==
    \/ Main \/ ReadSongData \/ SelectSongs \/ RegisterSongsView
    \/ WriteSongs \/ SelectArtists \/ WriteArtists
    \/ ReadLogData \/ FilterNextSong \/ SelectUsers \/ WriteUsers \/ AddUdfColumns
    \/ CallStartTime
    \/ EngineFailure
    \/ StartRun

Spec == Init /\ [][Next]_vars

NextFn ==
    \/ Main \/ ReadSongData \/ SelectSongs \/ RegisterSongsView
    \/ WriteSongs \/ SelectArtists \/ WriteArtists
    \/ ReadLogData \/ FilterNextSong \/ SelectUsers \/ WriteUsers \/ AddUdfColumns
    \/ DeriveStartTime
    \/ AddCalendarColumns \/ SelectTime \/ WriteTime \/ ReadSongsView
    \/ JoinSongplays \/ WriteSongplays

SpecFn == Init /\ [][NextFn]_vars

(***************************************************************************)
(* Properties.                                                             *)
(***************************************************************************)
Rows(d) == BagToSet(out[d])

Ended == pc \in {"done", "failed"}

\* the run ended, and not because the engine raised
EndedWithoutEngineFailure == Ended /\ failedAt \in {"none", "TypeError"}

\* the columns an event was read with
LogColumns == {"page", "song", "artist", "length", "ts", "userId", "firstName",
               "lastName", "gender", "level", "sessionId", "location", "userAgent"}
EventOf(r) == [c \in LogColumns |-> r[c]]

ExampleTs == <<1541105, 830796>>

\* C1: in every run of main() songs_table_view is registered exactly once
\* (by process_song_data) and read exactly once (by process_log_data), the
\* registration first: process_log_data runs only after the registration.
C1_ViewWrittenOnceThenReadOnce ==
    /\ viewOps.reg <= 1
    /\ viewOps.read <= 1
    /\ viewOps.read = 1 => viewOps.reg = 1
    /\ pc \in {"L114", "L117", "L121", "L131", "L134", "L143"} => viewOps.reg = 1
    /\ EndedWithoutEngineFailure => viewOps = [reg |-> 1, read |-> 1]

C4_ArtistIdUnique ==
    \A a, b \in artists_table \cup Rows("artists") :
        ("artist_id" \in DOMAIN a /\ "artist_id" \in DOMAIN b
         /\ a.artist_id = b.artist_id) => a = b

C6_AllFiveDirectoriesWritten ==
    /\ \A d \in Dirs : writes[d] <= 1
    /\ EndedWithoutEngineFailure => \A d \in Dirs : writes[d] = 1

\* C7: a failure of any statement aborts the job: the run is failed at once,
\* nothing more is executed or written by it, the statement is not retried.
\* The only step after a failure is a new invocation of the script.
C7_FailureAbortsJob ==
    [][ /\ failedAt' # "none" => pc' = "failed"
        /\ failedAt # "none" =>
              /\ run' = run + 1
              /\ pc' = "main"
              /\ out' = out ]_vars

C7_FailedBetweenWrites ==
    /\ pc = "failed"
    /\ failedAt = "L87"
    /\ writes = [NoWrites EXCEPT !["songs"] = 1]
    /\ Rows("songs") # {}

C10_StartTimeStepAlwaysFails ==
    /\ pc \notin {"L144", "L151", "L157", "L161", "L165", "L176", "done"}
    /\ writes["time"] = 0 /\ writes["songplays"] = 0
    /\ Rows("time") = {} /\ Rows("songplays") = {}
    /\ failedAt = "TypeError" =>
          /\ pc = "failed"
          /\ writes = [NoWrites EXCEPT !["songs"] = 1, !["artists"] = 1, !["users"] = 1]

C10_FailedAtStartTime ==
    /\ pc = "failed"
    /\ failedAt = "TypeError"
    /\ Rows("users") # {}

=============================================================================
